---- MODULE Spec2Model ----
(***************************************************************************)
(* A model of the interpolation and raster-assembly pipeline of the        *)
(* repository: run_enhanced_uganda_analysis (the daily pipeline, file      *)
(* run_enhanced_uganda_analysis.py) and the HTTP handler run_interpolation *)
(* (app.py), together with a reader that polls for the persisted report    *)
(* the way get_workflow_status does.  Parts of the program are also        *)
(* exercised on their own, each under a specification of its own: the grid *)
(* construction (GridSpec), the detection of coordinate columns            *)
(* (DetectSpec), the inverse-distance estimate (IdwSpec), the pipeline run *)
(* a second time over the same input (RerunSpec), the pipeline beside the  *)
(* wall clock (TimeoutSpec), the selection of a variable's dates           *)
(* (SelectSpec), the Nextflow runs of the HTTP API (WorkflowSpec) and the  *)
(* monitor of monitor.py (MonitorSpec, MonitorFairSpec).                   *)
(*                                                                         *)
(* Units.  Coordinates are integers in thousandths of a degree, so the     *)
(* source's grid_resolution = 0.005 is 5 and buffer_percent = 0.2 is the   *)
(* fraction buffer_num / buffer_den = 1/5.  Dates are day numbers; their   *)
(* ISO text form str(date) orders exactly as the day numbers do.           *)
(***************************************************************************)
EXTENDS Integers, Sequences, FiniteSets, TLC

(***************************************************************************)
(* Bounds of the model.                                                    *)
(***************************************************************************)
MaxDate == 2

Dates == 1..MaxDate

(***************************************************************************)
(* Program constants.                                                      *)
(***************************************************************************)
\* target_variables, cut to two of its twelve names, in the list's order.
target_variables == <<"NDVI", "EH">>

\* 30 in the source; scaled so that the cap is reached within MaxDate dates.
max_days_per_variable == 2

grid_resolution == 5

buffer_num == 1

buffer_den == 5

grid_cap == 400

min_points_variable == 10

min_points_daily == 5

Vars == {target_variables[i] : i \in 1..Len(target_variables)}

\* Number of valid samples a variable may have on one date.
PointCounts == {0, 3, 12}

\* Bounding boxes of a variable's valid samples (thousandths of a degree).
Extents ==
  { [lat_min |-> 0,  lat_max |-> 5,  lon_min |-> 0, lon_max |-> 5],
    [lat_min |-> 10, lat_max |-> 15, lon_min |-> 0, lon_max |-> 5],
    [lat_min |-> 0,  lat_max |-> 10, lon_min |-> 0, lon_max |-> 5] }

\* The first variable's box is the first one; the others' boxes are free.
InitialExtents ==
  {e \in [Vars -> Extents] :
     e[target_variables[1]] = [lat_min |-> 0, lat_max |-> 5, lon_min |-> 0, lon_max |-> 5]}

VARIABLES
  pc,                 \* position of run_enhanced_uganda_analysis
  counts,             \* uganda_clean: valid samples per variable and date
  extent,             \* uganda_clean: bounding box of a variable's samples
  disk,               \* output_dir: the daily rasters uganda_*_daily_*.tif
  var_idx,            \* index of the for loop over available_vars
  day_idx,            \* index of the for loop over selected_dates
  selected_dates,
  grid,               \* grid_lat / grid_lon of the current variable
  interpolation_log,
  daily_raster_files,
  results_summary,
  stacks,             \* output_dir: uganda_<variable>_geostack.tif
  all_daily_rasters,
  multi,              \* output_dir: uganda_all_variables_geostack.tif
  catalog_file,       \* output_dir: uganda_multi_geostack_catalog.json
  results_file,       \* output_dir: uganda_enhanced_analysis_results.json
  outcome,            \* history: the branch each (variable, date) job took
  var_outcome,        \* history: the branch each variable took
  reader,             \* what the last poll of a reader observed
  hpc,                \* position of the HTTP handler run_interpolation
  request,            \* request.json of run_interpolation
  columns,            \* df.columns of the file the request names
  hpoints,            \* rows with coordinates, and with each variable valid
  h_idx,              \* index of the for loop over config['variables']
  results,
  output_files,
  hdisk,              \* OUTPUTS_DIR: the rasters run_interpolation wrote
  response,           \* what run_interpolation returned
  gridbuild,          \* the grid construction of either entry point, on its own
  detect,             \* the detection of coordinate columns, on its own
  idw,                \* the inverse-distance estimate of one grid node, on its own
  now,                \* datetime.now() of the running process
  hash_seed,          \* the string-hash seed of the running interpreter
  first_run,          \* history: what an earlier run over the same input produced
  deadline,           \* whether the wall clock has passed the run's time limit
  selection,          \* the selection of a variable's dates, on its own
  workflows,          \* the Nextflow runs started through the HTTP API
  monitor             \* the WorkflowMonitor of monitor.py and its shared dicts

vars == <<pc, counts, extent, disk, var_idx, day_idx, selected_dates, grid,
          interpolation_log, daily_raster_files, results_summary, stacks,
          all_daily_rasters, multi, catalog_file, results_file, outcome,
          var_outcome, reader, hpc, request, columns, hpoints, h_idx, results,
          output_files, hdisk, response, gridbuild, detect, idw, now, hash_seed,
          first_run, deadline, selection, workflows, monitor>>

pvars == <<pc, counts, extent, disk, var_idx, day_idx, selected_dates, grid,
           interpolation_log, daily_raster_files, results_summary, stacks,
           all_daily_rasters, multi, catalog_file, results_file, outcome,
           var_outcome>>

hvars == <<hpc, request, columns, hpoints, h_idx, results, output_files, hdisk,
           response>>

\* the clock and the hash seed of the process, and the earlier run
rvars == <<now, hash_seed, first_run>>

\* the variables that neither the pipeline's steps nor the handler's change
xvars == <<gridbuild, detect, idw, rvars, deadline, selection, workflows, monitor>>

\* the wall clock's limit and the parts that are modelled on their own below
yvars == <<deadline, selection, workflows, monitor>>

(***************************************************************************)
(* Pure helpers.                                                           *)
(***************************************************************************)
Min(a, b) == IF a <= b THEN a ELSE b

RECURSIVE SortedDatesDescending(_)
\* the dates in descending order
SortedDatesDescending(S) ==
  IF S = {} THEN <<>>
  ELSE LET m == CHOOSE x \in S : \A y \in S : x >= y
       IN  <<m>> \o SortedDatesDescending(S \ {m})

RECURSIVE SortedDates(_)
\* sorted(valid_data['date'].dt.date.unique())
SortedDates(S) ==
  IF S = {} THEN <<>>
  ELSE LET m == CHOOSE x \in S : \A y \in S : x <= y
       IN  <<m>> \o SortedDates(S \ {m})

\* the last n dates, as dates[-n:] would take them
LastDates(s, n) == SubSeq(s, Len(s) - Min(Len(s), n) + 1, Len(s))

\* dates[:max_days_per_variable]
Prefix(s, n) == SubSeq(s, 1, Min(Len(s), n))

\* the dates on which the variable has at least one valid sample
DatesOf(v) == {d \in Dates : counts[v][d] > 0}

RECURSIVE SumCounts(_, _)
SumCounts(v, S) ==
  IF S = {} THEN 0
  ELSE LET d == CHOOSE x \in S : TRUE
       IN  counts[v][d] + SumCounts(v, S \ {d})

\* len(valid_data) for a variable
ValidPoints(v) == SumCounts(v, Dates)

\* available_vars: every modelled target variable is a column of the input
available_vars == target_variables

(***************************************************************************)
(* Spatial grid of a variable (lines 107-124).                             *)
(***************************************************************************)
AxisBuffer(lo, hi) == ((hi - lo) * buffer_num) \div buffer_den

\* n = int((max - min + 2*buffer) / grid_resolution) + 1 (lines 115-116);
\* int() of a non-negative quotient is its floor
AxisCellsUncapped(lo, hi) ==
  (((hi - lo) + 2 * AxisBuffer(lo, hi)) \div grid_resolution) + 1

\* n = min(n, 400) (lines 119-120)
AxisCells(lo, hi) == Min(AxisCellsUncapped(lo, hi), grid_cap)

GridOf(e) ==
  [ n_lat |-> AxisCells(e.lat_min, e.lat_max),
    n_lon |-> AxisCells(e.lon_min, e.lon_max),
    south |-> e.lat_min - AxisBuffer(e.lat_min, e.lat_max),
    north |-> e.lat_max + AxisBuffer(e.lat_min, e.lat_max),
    west  |-> e.lon_min - AxisBuffer(e.lon_min, e.lon_max),
    east  |-> e.lon_max + AxisBuffer(e.lon_min, e.lon_max) ]

NoGrid == [n_lat |-> 0, n_lon |-> 0, south |-> 0, north |-> 0, west |-> 0, east |-> 0]

\* the ISO text of the first days, in date order
IsoDates == <<"2023-01-01", "2023-01-02", "2023-01-03", "2023-01-04", "2023-01-05">>

\* date_str = str(date)
DateStr(d) == IsoDates[d]

\* position of an ISO date text in string order, which is date order
IsoRank(s) == CHOOSE k \in 1..Len(IsoDates) : IsoDates[k] = s

(***************************************************************************)
(* Interpolation result and raster files.                                  *)
(*                                                                         *)
(* z[i][j] is the estimate at (grid_lat[i], grid_lon[j]); grid_lat is      *)
(* ascending, so i = 1 is the southernmost grid row.  The estimate is kept *)
(* symbolically as the job and the grid node it was computed for.          *)
(***************************************************************************)
Estimate(v, d, g) ==
  [i \in 1..g.n_lat |-> [j \in 1..g.n_lon |-> <<v, DateStr(d), i, j>>]]

\* dst.write(z.astype(np.float32), 1): array row r becomes pixel row r
BandPixels(z) == [r \in 1..Len(z) |-> z[r]]

\* from_bounds(west, south, east, north, width, height): pixel row 1 is the
\* northernmost row, so pixel row r lies over grid row n_lat + 1 - r, and
\* pixel column c over grid column c.
TransformNode(g, r, c) == <<g.n_lat + 1 - r, c>>

\* f'uganda_{variable}_daily_{date_str}.tif', as its '_'-separated parts
DailyName(v, d) == <<"uganda", v, "daily", DateStr(d)>>

\* os.path.basename(f).split('_')[1]
NameVariable(f) == f[2]

\* os.path.basename(f).split('_daily_')[1].replace('.tif', '')
NameDate(f) ==
  LET k == CHOOSE i \in 1..Len(f) : f[i] = "daily" /\ \A j \in 1..(i-1) : f[j] # "daily"
  IN  f[k + 1]

\* position of a variable name in ASCII order, as sorted() compares strings:
\* "EH" < "NDVI" since 'E' < 'N'
AsciiRank(v) == IF v = "EH" THEN 1 ELSE 2

\* the order of sorted() on the paths uganda_<variable>_daily_<date>.tif
NameBefore(f, g) ==
  \/ AsciiRank(f[2]) < AsciiRank(g[2])
  \/ f[2] = g[2] /\ IsoRank(f[4]) <= IsoRank(g[4])

RECURSIVE SortedNames(_)
\* sorted(glob(...))
SortedNames(S) ==
  IF S = {} THEN <<>>
  ELSE LET m == CHOOSE x \in S : \A y \in S : NameBefore(x, y)
       IN  <<m>> \o SortedNames(S \ {m})

AllNames == {DailyName(v, d) : v \in Vars, d \in Dates}

\* a daily raster on disk: its georeferencing, its pixels, and who wrote it
RasterFile(g, px, by) == [grid |-> g, pixels |-> px, by |-> by]

\* what a file holds after rasterio.open(..., 'w') created it and the write
\* then failed: the grid's georeferencing, no estimate in any pixel
UnwrittenPixels(g) ==
  [r \in 1..g.n_lat |-> [c \in 1..g.n_lon |-> <<"unwritten", "", r, c>>]]

\* pixels of a raster that an earlier run left in output_dir
EarlierPixels(g) ==
  [r \in 1..g.n_lat |-> [c \in 1..g.n_lon |-> <<"earlier", "", r, c>>]]

\* an earlier run's grid: same shape as the first extent, other bounds
EarlierExtent == [lat_min |-> 20, lat_max |-> 25, lon_min |-> 0, lon_max |-> 5]

EmptyFn == [x \in {} |-> x]

\* output_dir at the start of a run: empty, or one daily raster of an
\* earlier run (os.makedirs(output_dir, exist_ok=True) keeps what is there)
InitialDisks ==
  {EmptyFn} \cup
  {n :> RasterFile(GridOf(EarlierExtent), EarlierPixels(GridOf(EarlierExtent)), "earlier")
     : n \in {DailyName(v, 1) : v \in Vars}}

SameShape(g, h) == g.n_lat = h.n_lat /\ g.n_lon = h.n_lon

SameProfile(g, h) == g = h

\* GDAL's nearest-neighbour fit of an array to a window of another shape
Resample(px, g) ==
  [r \in 1..g.n_lat |->
     [c \in 1..g.n_lon |->
        px[(((r - 1) * Len(px)) \div g.n_lat) + 1]
          [(((c - 1) * Len(px[1])) \div g.n_lon) + 1]]]

\* src.read(1) of file f followed by dst.write(data, i) into a dataset
\* whose profile is the grid g
BandFrom(f, g) ==
  [ src    |-> f,
    pixels |-> IF SameShape(disk[f].grid, g) THEN disk[f].pixels
               ELSE Resample(disk[f].pixels, g),
    desc   |-> <<NameVariable(f), NameDate(f)>> ]

NoStack == [exists |-> FALSE, grid |-> NoGrid, count |-> 0, bands |-> <<>>, closed |-> FALSE]

EmptyLog ==
  [ variable |-> "", successful_interpolations |-> 0,
    failed_interpolations |-> 0, daily_files |-> <<>> ]

EmptyCatalog ==
  [total_bands |-> 0, variables |-> <<>>, band_catalog |-> <<>>, creation_date |-> 0]

\* the seeds a Python process may start with (PYTHONHASHSEED is random by
\* default); they give the two iteration orders of a set of two strings
HashSeeds == {0, 1}

RECURSIVE SetList(_)
\* list(set(names)): a set of strings is iterated in the order of the
\* strings' hashes, which depend on the seed of the process
SetList(S) ==
  IF S = {} THEN <<>>
  ELSE LET m == CHOOSE x \in S : \A y \in S :
                  IF hash_seed = 0 THEN AsciiRank(x) <= AsciiRank(y)
                                   ELSE AsciiRank(x) >= AsciiRank(y)
       IN  <<m>> \o SetList(S \ {m})

EmptySummary == [variables_processed |-> <<>>, processing_results |-> EmptyFn]

AbsentCatalog == [state |-> "absent", content |-> EmptyCatalog]

AbsentReport == [state |-> "absent", content |-> EmptySummary]

\* a catalog that numbers its bands from 0, as enumerate() does
CatalogOfZeroBased(files) ==
  [ total_bands  |-> Len(files),
    variables    |-> SetList({NameVariable(files[i]) : i \in 1..Len(files)}),
    band_catalog |-> [i \in 1..Len(files) |->
                        [ band_number |-> i - 1,
                          filename    |-> files[i],
                          variable    |-> NameVariable(files[i]),
                          date        |-> NameDate(files[i]) ]],
    creation_date |-> now ]

\* the catalog dict of lines 352-366 (band_number is i+1 over a 0-based i;
\* 'multi_geostack_file' is the same fixed path in every run)
CatalogOf(files) ==
  [ total_bands  |-> Len(files),
    variables    |-> SetList({NameVariable(files[i]) : i \in 1..Len(files)}),
    band_catalog |-> [i \in 1..Len(files) |->
                        [ band_number |-> (i - 1) + 1,
                          filename    |-> files[i],
                          variable    |-> NameVariable(files[i]),
                          date        |-> NameDate(files[i]) ]],
    creation_date |-> now ]

\* the variable of the current iteration of the loop of line 95
variable == available_vars[var_idx]

\* the date of the current iteration of the loop of line 175
date == selected_dates[day_idx]

(***************************************************************************)
(* run_enhanced_uganda_analysis.                                           *)
(***************************************************************************)
PipelineInit ==
  /\ pc = "var_loop"
  /\ counts \in [Vars -> [Dates -> PointCounts]]
  /\ extent \in InitialExtents
  /\ disk \in InitialDisks
  /\ var_idx = 1
  /\ day_idx = 1
  /\ selected_dates = <<>>
  /\ grid = NoGrid
  /\ interpolation_log = EmptyLog
  /\ daily_raster_files = <<>>
  /\ results_summary = EmptySummary
  /\ stacks = EmptyFn
  /\ all_daily_rasters = <<>>
  /\ multi = NoStack
  /\ catalog_file = AbsentCatalog
  /\ results_file = AbsentReport
  /\ outcome = [v \in Vars |-> [d \in Dates |-> "none"]]
  /\ var_outcome = [v \in Vars |-> "none"]
  /\ reader = <<"nothing", "absent">>

\* lines 95-103: a variable with fewer than 10 valid points is passed over
VarSkip ==
  /\ pc = "var_loop"
  /\ var_idx <= Len(available_vars)
  /\ ValidPoints(variable) < min_points_variable
  /\ var_idx' = var_idx + 1
  /\ var_outcome' = [var_outcome EXCEPT ![variable] = "skipped"]
  /\ UNCHANGED <<pc, counts, extent, disk, day_idx, selected_dates, grid,
                 interpolation_log, daily_raster_files, results_summary, stacks,
                 all_daily_rasters, multi, catalog_file, results_file, outcome,
                 reader, hvars, xvars>>

\* lines 95-142: grid, selected dates and tracking of the next variable
VarBegin ==
  /\ pc = "var_loop"
  /\ var_idx <= Len(available_vars)
  /\ ValidPoints(variable) >= min_points_variable
  /\ grid' = GridOf(extent[variable])
  /\ selected_dates' = Prefix(SortedDates(DatesOf(variable)), max_days_per_variable)
  /\ interpolation_log' = [EmptyLog EXCEPT !.variable = variable]
  /\ daily_raster_files' = <<>>
  /\ day_idx' = 1
  /\ pc' = "day_loop"
  /\ var_outcome' = [var_outcome EXCEPT ![variable] = "processed"]
  /\ UNCHANGED <<counts, extent, disk, var_idx, results_summary, stacks,
                 all_daily_rasters, multi, catalog_file, results_file, outcome,
                 reader, hvars, xvars>>

InDayLoop == pc = "day_loop" /\ day_idx <= Len(selected_dates)

\* a failure that is not caught at the job boundary and ends the run
JobFailedAborts(why) ==
  /\ interpolation_log' =
       [interpolation_log EXCEPT !.failed_interpolations = @ + 1]
  /\ outcome' = [outcome EXCEPT ![variable][date] = why]
  /\ pc' = "aborted"
  /\ UNCHANGED <<day_idx, counts, extent, var_idx, selected_dates, grid,
                 daily_raster_files, results_summary, stacks, all_daily_rasters,
                 multi, catalog_file, results_file, var_outcome, reader, hvars, xvars>>

JobFailed(why) ==
  /\ interpolation_log' =
       [interpolation_log EXCEPT !.failed_interpolations = @ + 1]
  /\ outcome' = [outcome EXCEPT ![variable][date] = why]
  /\ day_idx' = day_idx + 1
  /\ UNCHANGED <<pc, counts, extent, var_idx, selected_dates, grid,
                 daily_raster_files, results_summary, stacks, all_daily_rasters,
                 multi, catalog_file, results_file, var_outcome, reader, hvars, xvars>>

\* lines 178-182: fewer than 5 points on the day
DaySkip ==
  /\ InDayLoop
  /\ counts[variable][date] < min_points_daily
  /\ JobFailed("skip_points")
  /\ UNCHANGED disk

\* lines 191-195: perform_interpolation caught an exception and returned None
DayInterpFail ==
  /\ InDayLoop
  /\ counts[variable][date] >= min_points_daily
  /\ JobFailed("failed")
  /\ UNCHANGED disk

\* lines 198-216, 222-224: writing the GeoTIFF raised; the file was not
\* created, or was created and is left without the estimates
DayWriteFail ==
  /\ InDayLoop
  /\ counts[variable][date] >= min_points_daily
  /\ JobFailed("failed")
  /\ \/ UNCHANGED disk
     \/ disk' = (DailyName(variable, date) :>
                   RasterFile(grid, UnwrittenPixels(grid), "failed")) @@ disk

\* lines 186-220: the day's raster is written and recorded
DaySuccess ==
  /\ InDayLoop
  /\ counts[variable][date] >= min_points_daily
  /\ disk' = (DailyName(variable, date) :>
                RasterFile(grid, BandPixels(Estimate(variable, date, grid)), "run")) @@ disk
  /\ daily_raster_files' = Append(daily_raster_files, DailyName(variable, date))
  /\ interpolation_log' =
       [interpolation_log EXCEPT
          !.successful_interpolations = @ + 1,
          !.daily_files = Append(@, DailyName(variable, date))]
  /\ outcome' = [outcome EXCEPT ![variable][date] = "success"]
  /\ day_idx' = day_idx + 1
  /\ UNCHANGED <<pc, counts, extent, var_idx, selected_dates, grid,
                 results_summary, stacks, all_daily_rasters, multi, catalog_file,
                 results_file, var_outcome, reader, hvars, xvars>>

\* the geostack of lines 233-251 over an ordered list of daily rasters
VariableStack(files) ==
  [ exists |-> TRUE,
    grid   |-> disk[files[1]].grid,
    count  |-> Len(files),
    bands  |-> [i \in 1..Len(files) |-> BandFrom(files[i], disk[files[1]].grid)],
    closed |-> TRUE ]

\* lines 226-253, 310-312: the variable's geostack and its entry of the report
VarFinish ==
  /\ pc = "day_loop"
  /\ day_idx > Len(selected_dates)
  /\ stacks' = IF daily_raster_files # <<>>
               THEN (variable :> VariableStack(daily_raster_files)) @@ stacks
               ELSE stacks
  /\ results_summary' =
       [ variables_processed |-> Append(results_summary.variables_processed, variable),
         processing_results  |-> (variable :> interpolation_log)
                                   @@ results_summary.processing_results ]
  /\ var_idx' = var_idx + 1
  /\ pc' = "var_loop"
  /\ UNCHANGED <<counts, extent, disk, day_idx, selected_dates, grid,
                 interpolation_log, daily_raster_files, all_daily_rasters, multi,
                 catalog_file, results_file, outcome, var_outcome, reader, hvars, xvars>>

\* lines 314-330: the daily rasters found in output_dir, in sorted order
MultiGlob ==
  /\ pc = "var_loop"
  /\ var_idx > Len(available_vars)
  /\ all_daily_rasters' = SortedNames(DOMAIN disk)
  /\ pc' = IF DOMAIN disk # {} THEN "multi_open" ELSE "report_open"
  /\ UNCHANGED <<counts, extent, disk, var_idx, day_idx, selected_dates, grid,
                 interpolation_log, daily_raster_files, results_summary, stacks,
                 multi, catalog_file, results_file, outcome, var_outcome, reader, hvars, xvars>>

\* lines 322-332: the multi-variable geostack is created with the first
\* raster's profile and one band per raster found
MultiOpen ==
  /\ pc = "multi_open"
  /\ multi' = [ exists |-> TRUE,
                grid   |-> disk[all_daily_rasters[1]].grid,
                count  |-> Len(all_daily_rasters),
                bands  |-> <<>>,
                closed |-> FALSE ]
  /\ pc' = "multi_band"
  /\ UNCHANGED <<counts, extent, disk, var_idx, day_idx, selected_dates, grid,
                 interpolation_log, daily_raster_files, results_summary, stacks,
                 all_daily_rasters, catalog_file, results_file, outcome,
                 var_outcome, reader, hvars, xvars>>

\* the raster of the current iteration of the loop of line 333
raster_file == all_daily_rasters[Len(multi.bands) + 1]

InBandLoop == pc = "multi_band" /\ Len(multi.bands) < Len(all_daily_rasters)

\* lines 333-347: the next raster is read and written as the next band; a
\* raster of another shape is fitted to the dataset's shape by the library
MultiWriteBand ==
  /\ InBandLoop
  /\ multi' = [multi EXCEPT !.bands = Append(@, BandFrom(raster_file, multi.grid))]
  /\ UNCHANGED <<pc, counts, extent, disk, var_idx, day_idx, selected_dates, grid,
                 interpolation_log, daily_raster_files, results_summary, stacks,
                 all_daily_rasters, catalog_file, results_file, outcome,
                 var_outcome, reader, hvars, xvars>>

\* lines 344-346: the library refuses an array of another shape; nothing
\* catches the exception, and the geostack stays on disk as far as written
MultiBandRaise ==
  /\ InBandLoop
  /\ ~SameShape(disk[raster_file].grid, multi.grid)
  /\ pc' = "aborted"
  /\ UNCHANGED <<counts, extent, disk, var_idx, day_idx, selected_dates, grid,
                 interpolation_log, daily_raster_files, results_summary, stacks,
                 all_daily_rasters, multi, catalog_file, results_file, outcome,
                 var_outcome, reader, hvars, xvars>>

\* lines 349-369: the geostack is closed, the catalog is built and its file
\* is opened for writing, which creates it empty
CatalogOpen ==
  /\ pc = "multi_band"
  /\ Len(multi.bands) = Len(all_daily_rasters)
  /\ multi' = [multi EXCEPT !.closed = TRUE]
  /\ catalog_file' = [state |-> "partial", content |-> EmptyCatalog]
  /\ pc' = "catalog_dump"
  /\ UNCHANGED <<counts, extent, disk, var_idx, day_idx, selected_dates, grid,
                 interpolation_log, daily_raster_files, results_summary, stacks,
                 all_daily_rasters, results_file, outcome, var_outcome, reader, hvars, xvars>>

\* line 370: json.dump and the close of the with block
CatalogDump ==
  /\ pc = "catalog_dump"
  /\ catalog_file' = [state |-> "complete", content |-> CatalogOf(all_daily_rasters)]
  /\ pc' = "report_open"
  /\ UNCHANGED <<counts, extent, disk, var_idx, day_idx, selected_dates, grid,
                 interpolation_log, daily_raster_files, results_summary, stacks,
                 all_daily_rasters, multi, results_file, outcome, var_outcome,
                 reader, hvars, xvars>>

\* lines 378-379: the report file is opened for writing, which creates it empty
ReportOpen ==
  /\ pc = "report_open"
  /\ results_file' = [state |-> "partial", content |-> EmptySummary]
  /\ pc' = "report_dump"
  /\ UNCHANGED <<counts, extent, disk, var_idx, day_idx, selected_dates, grid,
                 interpolation_log, daily_raster_files, results_summary, stacks,
                 all_daily_rasters, multi, catalog_file, outcome, var_outcome,
                 reader, hvars, xvars>>

\* a run that returns without having written the report out
ReportDumpSkipped ==
  /\ pc = "report_dump"
  /\ pc' = "done"
  /\ UNCHANGED <<counts, extent, disk, var_idx, day_idx, selected_dates, grid,
                 interpolation_log, daily_raster_files, results_summary, stacks,
                 all_daily_rasters, multi, catalog_file, results_file, outcome,
                 var_outcome, reader, hvars, xvars>>

\* lines 380-396: json.dump, the close of the with block, return True
ReportDump ==
  /\ pc = "report_dump"
  /\ results_file' = [state |-> "complete", content |-> results_summary]
  /\ pc' = "done"
  /\ UNCHANGED <<counts, extent, disk, var_idx, day_idx, selected_dates, grid,
                 interpolation_log, daily_raster_files, results_summary, stacks,
                 all_daily_rasters, multi, catalog_file, outcome, var_outcome,
                 reader, hvars, xvars>>

PipelineNext ==
  \/ VarSkip
  \/ VarBegin
  \/ DaySkip
  \/ DayInterpFail
  \/ DayWriteFail
  \/ DaySuccess
  \/ VarFinish
  \/ MultiGlob
  \/ MultiOpen
  \/ MultiWriteBand
  \/ MultiBandRaise
  \/ CatalogOpen
  \/ CatalogDump
  \/ ReportOpen
  \/ ReportDump

\* the program is started again on the same input and configuration, in a
\* new process and at a later time, after a run has returned (lines 398-399;
\* os.makedirs(output_dir, exist_ok=True) keeps the files of the first run)
Rerun ==
  /\ pc = "done"
  /\ first_run = <<>>
  /\ first_run' = <<[files |-> all_daily_rasters, catalog_file |-> catalog_file]>>
  /\ now' = now + 1
  /\ hash_seed' \in HashSeeds
  /\ pc' = "var_loop"
  /\ var_idx' = 1
  /\ day_idx' = 1
  /\ selected_dates' = <<>>
  /\ grid' = NoGrid
  /\ interpolation_log' = EmptyLog
  /\ daily_raster_files' = <<>>
  /\ results_summary' = EmptySummary
  /\ all_daily_rasters' = <<>>
  /\ outcome' = [v \in Vars |-> [d \in Dates |-> "none"]]
  /\ var_outcome' = [v \in Vars |-> "none"]
  /\ UNCHANGED <<counts, extent, disk, stacks, multi, catalog_file, results_file,
                 reader, hvars, gridbuild, detect, idw, yvars>>

RerunNext == PipelineNext \/ Rerun

(***************************************************************************)
(* A concurrent reader: it looks whether the file exists and, if so, opens *)
(* and parses it (get_workflow_status, app.py lines 484-490).              *)
(***************************************************************************)
ReaderPoll ==
  /\ \/ catalog_file.state # "absent" /\ reader' = <<"catalog", catalog_file.state>>
     \/ results_file.state # "absent" /\ reader' = <<"report", results_file.state>>
  /\ reader' # reader
  /\ UNCHANGED <<pc, counts, extent, disk, var_idx, day_idx, selected_dates, grid,
                 interpolation_log, daily_raster_files, results_summary, stacks,
                 all_daily_rasters, multi, catalog_file, results_file, outcome,
                 var_outcome, hvars, xvars>>

(***************************************************************************)
(* run_interpolation (app.py lines 247-401).                               *)
(***************************************************************************)
\* names a request may list as variables
RequestNames == {"NDVI", "EH"}

\* config['variables']: up to two names
RequestLists ==
  {<<>>} \cup {<<a>> : a \in RequestNames}
         \cup {<<a, b>> : a \in RequestNames, b \in RequestNames}

\* config['resolution']; 100 by default, small here
Resolutions == {2, 3}

\* data.get('method', 'kriging'): the three names the interpolation code
\* knows, one of them capitalised, and a name it does not know
Methods == {"kriging", "Kriging", "idw", "rbf", "spline"}

\* config['method'].lower()
Lower(m) == IF m = "Kriging" THEN "kriging" ELSE m

\* lines 341-357: the branch that computes the estimate for a method name:
\* OrdinaryKriging for 'kriging', the inverse-distance loop for any other
InterpolatorOf(method) == IF method = "kriging" THEN "kriging" ELSE "idw"

Requests ==
  [filename : BOOLEAN, variables : RequestLists, resolution : Resolutions,
   method : Methods]

\* number of rows a table may have with valid coordinates or a valid variable
RowCounts == {3, 12}

NoResponse == [code |-> 0, status |-> "", results |-> EmptyFn, output_files |-> <<>>]

\* lines 326-335: the 10 % buffer and the resolution x resolution grid over
\* the bounding box of the variable's rows
HttpBuffer(lo, hi) == ((hi - lo) * 1) \div 10

HttpGrid(e, resolution) ==
  [ n_lat |-> resolution,
    n_lon |-> resolution,
    south |-> e.lat_min - HttpBuffer(e.lat_min, e.lat_max),
    north |-> e.lat_max + HttpBuffer(e.lat_min, e.lat_max),
    west  |-> e.lon_min - HttpBuffer(e.lon_min, e.lon_max),
    east  |-> e.lon_max + HttpBuffer(e.lon_min, e.lon_max) ]

\* the bounding box of the rows of the table of a request
HttpExtent == [lat_min |-> 0, lat_max |-> 10, lon_min |-> 0, lon_max |-> 10]

HttpIdle ==
  /\ hpc = "idle"
  /\ request = [filename |-> FALSE, variables |-> <<>>, resolution |-> 2,
                method |-> "kriging"]
  /\ columns = {}
  /\ hpoints = [v \in RequestNames \cup {"rows"} |-> 3]
  /\ h_idx = 1
  /\ results = EmptyFn
  /\ output_files = <<>>
  /\ hdisk = EmptyFn
  /\ response = NoResponse

HttpInit ==
  /\ hpc = "start"
  /\ request \in Requests
  /\ columns \in SUBSET RequestNames
  /\ hpoints \in {h \in [RequestNames \cup {"rows"} -> RowCounts] :
                    \A v \in RequestNames : h[v] <= h["rows"]}
  /\ h_idx = 1
  /\ results = EmptyFn
  /\ output_files = <<>>
  /\ hdisk = EmptyFn
  /\ response = NoResponse

\* lines 260-264, 302-303: the request is refused with HTTP 400
HttpReject ==
  /\ hpc = "start"
  /\ \/ ~request.filename
     \/ request.variables = <<>>
     \/ hpoints["rows"] < 10
  /\ response' = [NoResponse EXCEPT !.code = 400, !.status = "error"]
  /\ hpc' = "responded"
  /\ UNCHANGED <<request, columns, hpoints, h_idx, results, output_files, hdisk>>
  /\ UNCHANGED <<pvars, reader, xvars>>

\* lines 266-306: the table is loaded and the loop over the variables begins
HttpAccept ==
  /\ hpc = "start"
  /\ request.filename
  /\ request.variables # <<>>
  /\ hpoints["rows"] >= 10
  /\ hpc' = "var_loop"
  /\ UNCHANGED <<request, columns, hpoints, h_idx, results, output_files, hdisk,
                 response>>
  /\ UNCHANGED <<pvars, reader, xvars>>

\* the variable of the current iteration of the loop of line 309
hvariable == request.variables[h_idx]

InHttpLoop == hpc = "var_loop" /\ h_idx <= Len(request.variables)

\* lines 310-311: a requested name that is no column is passed over
HttpVarMissing ==
  /\ InHttpLoop
  /\ hvariable \notin columns
  /\ h_idx' = h_idx + 1
  /\ UNCHANGED <<hpc, request, columns, hpoints, results, output_files, hdisk,
                 response>>
  /\ UNCHANGED <<pvars, reader, xvars>>

\* lines 314-318: fewer than 10 valid rows
HttpVarInsufficient ==
  /\ InHttpLoop
  /\ hvariable \in columns
  /\ hpoints[hvariable] < 10
  /\ results' = (hvariable :> [status |-> "error", error |-> "Insufficient data points",
                               output_file |-> <<>>]) @@ results
  /\ h_idx' = h_idx + 1
  /\ UNCHANGED <<hpc, request, columns, hpoints, output_files, hdisk, response>>
  /\ UNCHANGED <<pvars, reader, xvars>>

\* lines 340-391: interpolation or the write raised; the error is recorded
HttpVarFail ==
  /\ InHttpLoop
  /\ hvariable \in columns
  /\ hpoints[hvariable] >= 10
  /\ results' = (hvariable :> [status |-> "error", error |-> "exception",
                               output_file |-> <<>>]) @@ results
  /\ h_idx' = h_idx + 1
  /\ UNCHANGED <<hpc, request, columns, hpoints, output_files, hdisk, response>>
  /\ UNCHANGED <<pvars, reader, xvars>>

\* f"{filename}_{variable}_{run_id}.tif" with a fresh run_id per variable
HttpName(v, k) == <<"file", v, k>>

\* lines 320-388: the variable's raster is written and recorded
HttpVarSuccess ==
  /\ InHttpLoop
  /\ hvariable \in columns
  /\ hpoints[hvariable] >= 10
  /\ LET g == HttpGrid(HttpExtent, request.resolution)
         f == HttpName(hvariable, h_idx)
         method == Lower(request.method)
     IN  /\ hdisk' = (f :> (RasterFile(g, BandPixels(Estimate(hvariable, 1, g)), "run")
                               @@ [interpolator |-> InterpolatorOf(method)]))
                       @@ hdisk
         /\ output_files' = Append(output_files, f)
         /\ results' = (hvariable :> [status |-> "success", error |-> "",
                                      method_used |-> method,
                                      output_file |-> f]) @@ results
  /\ h_idx' = h_idx + 1
  /\ UNCHANGED <<hpc, request, columns, hpoints, response>>
  /\ UNCHANGED <<pvars, reader, xvars>>

\* lines 393-398: the response of a completed request
HttpRespond ==
  /\ hpc = "var_loop"
  /\ h_idx > Len(request.variables)
  /\ response' = [code |-> 200, status |-> "completed", results |-> results,
                  output_files |-> output_files]
  /\ hpc' = "responded"
  /\ UNCHANGED <<request, columns, hpoints, h_idx, results, output_files, hdisk>>
  /\ UNCHANGED <<pvars, reader, xvars>>

HttpNext ==
  \/ HttpReject
  \/ HttpAccept
  \/ HttpVarMissing
  \/ HttpVarInsufficient
  \/ HttpVarFail
  \/ HttpVarSuccess
  \/ HttpRespond

(***************************************************************************)
(* The grid construction on its own (run_enhanced_uganda_analysis.py lines *)
(* 107-124, app.py lines 325-335), over bounding boxes and resolutions     *)
(* wider than the ones the runs above are given.  Extents are multiples of *)
(* 10, so that both buffer fractions (1/5 and 1/10) give whole numbers.    *)
(***************************************************************************)
\* (min, max) of the samples on one axis: all samples on one coordinate, a
\* small, a middle and a large extent
AxisRanges == {<<10, 10>>, <<0, 10>>, <<10, 60>>, <<0, 2000>>}

SampleBoxes ==
  {[lat_min |-> a[1], lat_max |-> a[2], lon_min |-> b[1], lon_max |-> b[2]]
     : a \in AxisRanges, b \in AxisRanges}

\* config['resolution'] of a request: a number of cells per axis
CellCounts == {1, 2, 100, 10000}

Max(a, b) == IF a >= b THEN a ELSE b

\* np.linspace(lo, hi, n): n evenly spaced values from lo to hi, the last one
\* being hi when n > 1, and the single value lo when n = 1.  The values are
\* kept as numerators over the denominator LinspaceDen(n).
LinspaceDen(n) == Max(n - 1, 1)

Linspace(lo, hi, n) ==
  [k \in 1..n |-> IF n = 1 THEN lo ELSE lo * (n - 1) + (k - 1) * (hi - lo)]

NoBuild ==
  [ pc |-> "idle", entry |-> "none",
    box |-> [lat_min |-> 0, lat_max |-> 0, lon_min |-> 0, lon_max |-> 0],
    resolution |-> 0, lat_buffer |-> 0, lon_buffer |-> 0,
    n_lat |-> 0, n_lon |-> 0, grid_lat |-> <<>>, grid_lon |-> <<>> ]

GridIdle == gridbuild = NoBuild

\* the samples of a variable of the pipeline, or of a request (whose
\* resolution is config['resolution'])
GridInit ==
  \/ \E b \in SampleBoxes :
        gridbuild = [NoBuild EXCEPT !.pc = "box", !.entry = "pipeline", !.box = b,
                                    !.resolution = grid_resolution]
  \/ \E b \in SampleBoxes, r \in CellCounts :
        gridbuild = [NoBuild EXCEPT !.pc = "box", !.entry = "http", !.box = b,
                                    !.resolution = r]

\* run_enhanced_uganda_analysis.py lines 108-116: extent, buffers, cell counts
GridCount ==
  /\ gridbuild.pc = "box"
  /\ gridbuild.entry = "pipeline"
  /\ LET b == gridbuild.box
     IN  gridbuild' =
           [gridbuild EXCEPT
              !.pc = "counted",
              !.lat_buffer = AxisBuffer(b.lat_min, b.lat_max),
              !.lon_buffer = AxisBuffer(b.lon_min, b.lon_max),
              !.n_lat = AxisCellsUncapped(b.lat_min, b.lat_max),
              !.n_lon = AxisCellsUncapped(b.lon_min, b.lon_max)]
  /\ UNCHANGED <<pvars, reader, hvars, detect, idw, rvars, yvars>>

\* run_enhanced_uganda_analysis.py lines 119-124: the cap and the coordinates
GridBuild ==
  /\ gridbuild.pc = "counted"
  /\ LET b == gridbuild.box
         g == GridOf(b)
     IN  gridbuild' =
           [gridbuild EXCEPT
              !.pc = "built",
              !.n_lat = g.n_lat,
              !.n_lon = g.n_lon,
              !.grid_lat = Linspace(g.south, g.north, g.n_lat),
              !.grid_lon = Linspace(g.west, g.east, g.n_lon)]
  /\ UNCHANGED <<pvars, reader, hvars, detect, idw, rvars, yvars>>

\* app.py lines 326-335: buffers and the resolution x resolution coordinates
HttpGridBuild ==
  /\ gridbuild.pc = "box"
  /\ gridbuild.entry = "http"
  /\ LET b == gridbuild.box
         g == HttpGrid(b, gridbuild.resolution)
     IN  gridbuild' =
           [gridbuild EXCEPT
              !.pc = "built",
              !.lat_buffer = HttpBuffer(b.lat_min, b.lat_max),
              !.lon_buffer = HttpBuffer(b.lon_min, b.lon_max),
              !.n_lat = g.n_lat,
              !.n_lon = g.n_lon,
              !.grid_lat = Linspace(g.south, g.north, g.n_lat),
              !.grid_lon = Linspace(g.west, g.east, g.n_lon)]
  /\ UNCHANGED <<pvars, reader, hvars, detect, idw, rvars, yvars>>

GridNext == GridCount \/ GridBuild \/ HttpGridBuild

(***************************************************************************)
(* Detection of the coordinate columns of a table (app.py): the function   *)
(* detect_coordinate_columns (lines 22-39) and the two handlers that look  *)
(* for coordinate columns themselves, csv_info (lines 102-104) and         *)
(* variable_selection (lines 177-182).  A column name is the sequence of   *)
(* its characters, so that "pattern in col_lower" is a substring test.     *)
(***************************************************************************)
\* the most columns a table has
MaxColumns == 3

p_lat == <<"l", "a", "t">>

p_latitude == <<"l", "a", "t", "i", "t", "u", "d", "e">>

p_y == <<"y">>

p_northing == <<"n", "o", "r", "t", "h", "i", "n", "g">>

p_lon == <<"l", "o", "n">>

p_long == <<"l", "o", "n", "g">>

p_longitude == <<"l", "o", "n", "g", "i", "t", "u", "d", "e">>

p_x == <<"x">>

p_easting == <<"e", "a", "s", "t", "i", "n", "g">>

p_lng == <<"l", "n", "g">>

\* column names a table may have: lat, Latitude, lon, lng, x, y, northing,
\* easting, ndvi, xy
ColumnNames ==
  { <<"l", "a", "t">>,
    <<"L", "a", "t", "i", "t", "u", "d", "e">>,
    <<"l", "o", "n">>,
    <<"l", "n", "g">>,
    <<"x">>,
    <<"y">>,
    <<"n", "o", "r", "t", "h", "i", "n", "g">>,
    <<"e", "a", "s", "t", "i", "n", "g">>,
    <<"n", "d", "v", "i">>,
    <<"x", "y">> }

\* df.columns: up to MaxColumns different names, in table order
ColumnLists ==
  UNION { {c \in [1..n -> ColumnNames] : \A i, j \in 1..n : c[i] = c[j] => i = j}
            : n \in 0..MaxColumns }

\* col.lower(), character by character ("L" is the only capital in use)
LowerChar(c) == IF c = "L" THEN "l" ELSE c

LowerName(col) == [i \in 1..Len(col) |-> LowerChar(col[i])]

\* pattern in col_lower
Contains(name, pattern) ==
  \E i \in 0..(Len(name) - Len(pattern)) :
     SubSeq(name, i + 1, i + Len(pattern)) = pattern

\* any(pattern in col.lower() for pattern in patterns)
AnyIn(col, patterns) ==
  \E k \in 1..Len(patterns) : Contains(LowerName(col), patterns[k])

\* line 24
lat_patterns == <<p_lat, p_latitude, p_y, p_northing>>

\* line 25
lon_patterns == <<p_lon, p_long, p_longitude, p_x, p_easting>>

\* lat_col = None, lon_col = None (lines 27-28); a column is held as a
\* one-element sequence and None as the empty one
NoColumns == [lat_col |-> <<>>, lon_col |-> <<>>, lat_hits |-> <<>>, lon_hits |-> <<>>]

RECURSIVE DetectLoop(_, _, _)
\* lines 30-35, from column k on; lat_hits and lon_hits keep the columns
\* that took the if and the elif branch
DetectLoop(cols, k, acc) ==
  IF k > Len(cols) THEN acc
  ELSE IF AnyIn(cols[k], lat_patterns)
       THEN DetectLoop(cols, k + 1,
              [acc EXCEPT !.lat_col = <<cols[k]>>, !.lat_hits = Append(@, cols[k])])
       ELSE IF AnyIn(cols[k], lon_patterns)
            THEN DetectLoop(cols, k + 1,
                   [acc EXCEPT !.lon_col = <<cols[k]>>, !.lon_hits = Append(@, cols[k])])
            ELSE DetectLoop(cols, k + 1, acc)

\* lines 22-39: the dict of the two columns, or None
detect_coordinate_columns(cols) ==
  LET acc == DetectLoop(cols, 1, NoColumns)
      both == acc.lat_col # <<>> /\ acc.lon_col # <<>>
  IN  [ found     |-> both,
        latitude  |-> IF both THEN acc.lat_col ELSE <<>>,
        longitude |-> IF both THEN acc.lon_col ELSE <<>>,
        lat_candidates |-> acc.lat_hits,
        lon_candidates |-> acc.lon_hits ]

\* csv_info, lines 103-104: the two list comprehensions
csv_info(cols) ==
  [ found     |-> FALSE,
    latitude  |-> <<>>,
    longitude |-> <<>>,
    lat_candidates |-> SelectSeq(cols, LAMBDA c : AnyIn(c, <<p_lat, p_y, p_northing>>)),
    lon_candidates |-> SelectSeq(cols, LAMBDA c : AnyIn(c, <<p_lon, p_lng, p_x, p_easting>>)) ]

RECURSIVE SelectionLoop(_, _, _)
\* variable_selection, lines 162-182, over numeric columns, from column k on
SelectionLoop(cols, k, acc) ==
  IF k > Len(cols) THEN acc
  ELSE IF AnyIn(cols[k], <<p_lat, p_latitude, p_y>>)
       THEN SelectionLoop(cols, k + 1, [acc EXCEPT !.lat_hits = Append(@, cols[k])])
       ELSE IF AnyIn(cols[k], <<p_lon, p_longitude, p_long, p_x>>)
            THEN SelectionLoop(cols, k + 1, [acc EXCEPT !.lon_hits = Append(@, cols[k])])
            ELSE SelectionLoop(cols, k + 1, acc)

\* variable_selection: coordinate_candidates
variable_selection(cols) ==
  LET acc == SelectionLoop(cols, 1, NoColumns)
  IN  [ found     |-> FALSE,
        latitude  |-> <<>>,
        longitude |-> <<>>,
        lat_candidates |-> acc.lat_hits,
        lon_candidates |-> acc.lon_hits ]

\* no column name: data.get('lat_column') of a request without the key
NoColumn == <<>>

\* config['lat_column'] and config['lon_column'], lines 252-254
NoConfig == [lat_column |-> NoColumn, lon_column |-> NoColumn]

\* what a caller of run_interpolation may supply: either column, both or
\* none; the names supplied are y and x
Supplied ==
  [lat_column : {NoColumn, <<p_y>>}, lon_column : {NoColumn, <<p_x>>}]

NoDetection ==
  [ pc |-> "idle", columns |-> <<>>, path |-> "none",
    result |-> [found |-> FALSE, latitude |-> <<>>, longitude |-> <<>>,
                lat_candidates |-> <<>>, lon_candidates |-> <<>>],
    supplied |-> NoConfig, config |-> NoConfig ]

DetectIdle == detect = NoDetection

\* a table is loaded: pd.read_csv(file_path)
DetectInit ==
  \E cols \in ColumnLists, given \in Supplied :
     detect = [NoDetection EXCEPT !.pc = "table", !.columns = cols,
                                  !.supplied = given, !.config = given]

\* run_interpolation, lines 280-287: coords = detect_coordinate_columns(df)
DetectCoordinateColumns ==
  /\ detect.pc = "table"
  /\ detect' = [detect EXCEPT !.pc = "detected",
                              !.path = "detect_coordinate_columns",
                              !.result = detect_coordinate_columns(detect.columns)]
  /\ UNCHANGED <<pvars, reader, hvars, gridbuild, idw, rvars, yvars>>

\* csv_info, lines 99-104
CsvInfo ==
  /\ detect.pc = "table"
  /\ detect' = [detect EXCEPT !.pc = "detected",
                              !.path = "csv_info",
                              !.result = csv_info(detect.columns)]
  /\ UNCHANGED <<pvars, reader, hvars, gridbuild, idw, rvars, yvars>>

\* variable_selection, lines 160-182
VariableSelection ==
  /\ detect.pc = "table"
  /\ detect' = [detect EXCEPT !.pc = "detected",
                              !.path = "variable_selection",
                              !.result = variable_selection(detect.columns)]
  /\ UNCHANGED <<pvars, reader, hvars, gridbuild, idw, rvars, yvars>>

\* lines 283-284: config['lat_column'] = coords['latitude'];
\* config['lon_column'] = coords['longitude']
AutoDetected(config, coords) ==
  [config EXCEPT !.lat_column = coords.latitude, !.lon_column = coords.longitude]

\* run_interpolation, lines 280-297: the coordinate columns of the
\* configuration after auto-detection, and the validation against df.columns
ResolveCoordinates ==
  /\ detect.pc = "table"
  /\ LET config == detect.config
         needed == config.lat_column = NoColumn \/ config.lon_column = NoColumn
         coords == detect_coordinate_columns(detect.columns)
         after  == IF needed /\ coords.found THEN AutoDetected(config, coords)
                   ELSE config
         known(c) == c # NoColumn /\ \E i \in 1..Len(detect.columns) : detect.columns[i] = c[1]
     IN  detect' = [detect EXCEPT
                      !.pc = IF needed /\ ~coords.found THEN "rejected"
                             ELSE IF known(after.lat_column) /\ known(after.lon_column)
                                  THEN "resolved" ELSE "rejected",
                      !.path = "run_interpolation",
                      !.config = after]
  /\ UNCHANGED <<pvars, reader, hvars, gridbuild, idw, rvars, yvars>>

DetectNext ==
  DetectCoordinateColumns \/ CsvInfo \/ VariableSelection \/ ResolveCoordinates

\* the process starts: the wall clock, the interpreter's hash seed, and no
\* earlier run over the same input
ProcessInit == now = 1 /\ hash_seed = 0 /\ first_run = <<>>

(***************************************************************************)
(* The inverse-distance estimate of one grid node (perform_interpolation,  *)
(* run_enhanced_uganda_analysis.py lines 160-169; run_interpolation,       *)
(* app.py lines 350-357).  The arithmetic is exact: a weight 1 / d^2 is    *)
(* kept as its reciprocal d^2, in units of the square of the distance that *)
(* replaces a zero distance, and an estimate as numerator and denominator. *)
(***************************************************************************)
\* grid nodes are the points (0..MaxNode) x (0..MaxNode)
MaxNode == 2

\* 1e-10 in the source, the distance that stands in for zero: here half a
\* grid step, its square being 1 / EpsInv2 of a squared grid step
EpsInv2 == 4

\* (lon, lat) of the samples of a job; two of them lie on grid nodes
SamplePlaces == <<<<0, 0>>, <<2, 1>>, <<1, 3>>>>

\* the values a sample may have
SampleValues == {1, 7, 9}

\* the square of cdist([(grid_lon[j], grid_lat[i])], coords), of
\* sqrt((lats - grid_lat[i,j])**2 + (lons - grid_lon[i,j])**2)
Dist2(node, place) ==
  (node[1] - place[1]) * (node[1] - place[1])
    + (node[2] - place[2]) * (node[2] - place[2])

\* distances[distances == 0] = 1e-10 (pipeline, line 166), then d ** 2
ClampZero(d2) == IF d2 = 0 THEN 1 ELSE d2 * EpsInv2

\* np.maximum(distances, 1e-10) (handler, line 355), then d ** 2
ClampMax(d2) == Max(d2 * EpsInv2, 1)

RECURSIVE Product(_, _)
Product(s, k) == IF k = 0 THEN 1 ELSE s[k] * Product(s, k - 1)

RECURSIVE Sum(_, _)
Sum(s, k) == IF k = 0 THEN 0 ELSE s[k] + Sum(s, k - 1)

\* sum(weights * values) without the division by sum(weights)
IdwUnnormalised(values, d2) ==
  LET P == Product(d2, Len(d2))
      w == [i \in 1..Len(d2) |-> P \div d2[i]]
  IN  [ num |-> Sum([i \in 1..Len(d2) |-> w[i] * values[i]], Len(d2)),
        den |-> P ]

\* weights = 1 / distances**2; np.sum(weights * values) / np.sum(weights):
\* with P the product of all d2, weight i is (P / d2[i]) / P
IdwEstimate(values, d2) ==
  LET P == Product(d2, Len(d2))
      w == [i \in 1..Len(d2) |-> P \div d2[i]]
  IN  [ num |-> Sum([i \in 1..Len(d2) |-> w[i] * values[i]], Len(d2)),
        den |-> Sum(w, Len(d2)) ]

NoEstimate ==
  [pc |-> "idle", values |-> <<>>, node |-> <<0, 0>>, by |-> "none",
   z |-> [num |-> 0, den |-> 1]]

IdwIdle == idw = NoEstimate

\* the samples of a job and one node of its grid
IdwInit ==
  \E values \in [1..Len(SamplePlaces) -> SampleValues],
     node \in (0..MaxNode) \X (0..MaxNode) :
       idw = [NoEstimate EXCEPT !.pc = "samples", !.values = values, !.node = node]

\* perform_interpolation, lines 160-169: z[i, j] of the 'idw' branch
IdwPipeline ==
  /\ idw.pc = "samples"
  /\ idw' = [idw EXCEPT
               !.pc = "estimated",
               !.by = "perform_interpolation",
               !.z = IdwEstimate(idw.values,
                       [i \in 1..Len(SamplePlaces) |->
                          ClampZero(Dist2(idw.node, SamplePlaces[i]))])]
  /\ UNCHANGED <<pvars, reader, hvars, gridbuild, detect, rvars, yvars>>

\* run_interpolation, lines 350-357: interpolated[i, j] of the else branch
IdwHttp ==
  /\ idw.pc = "samples"
  /\ idw' = [idw EXCEPT
               !.pc = "estimated",
               !.by = "run_interpolation",
               !.z = IdwEstimate(idw.values,
                       [i \in 1..Len(SamplePlaces) |->
                          ClampMax(Dist2(idw.node, SamplePlaces[i]))])]
  /\ UNCHANGED <<pvars, reader, hvars, gridbuild, detect, rvars, yvars>>

IdwNext == IdwPipeline \/ IdwHttp

(***************************************************************************)
(* The wall clock.  run_enhanced_uganda_analysis starts no timer and reads *)
(* no clock between its steps: the time limit of a run passes without any  *)
(* step of the run taking notice.                                          *)
(***************************************************************************)
DeadlineIdle == deadline = FALSE

\* the overall time limit of the run expires while the run is under way
DeadlineExpires ==
  /\ pc \notin {"idle", "done", "aborted"}
  /\ ~deadline
  /\ deadline' = TRUE
  /\ UNCHANGED <<pvars, reader, hvars, gridbuild, detect, idw, rvars,
                 selection, workflows, monitor>>

\* the pipeline, with the wall clock running beside it
TimeoutNext == PipelineNext \/ DeadlineExpires

(***************************************************************************)
(* The selection of a variable's dates and the loop over them, on their    *)
(* own: a variable with samples on any set of days, more of them than      *)
(* max_days_per_variable included.                                         *)
(***************************************************************************)
\* the days on which the variable may have valid samples are 1..MaxDay
MaxDay == 5

Days == 1..MaxDay

\* the branches in which an iteration of the day loop ends (lines 180-182,
\* 193-195, 218-220, 222-224)
JobBranches == {"skip_points", "failed", "success"}

NoSelection == [pc |-> "idle", dates |-> {}, selected_dates |-> <<>>, attempted |-> <<>>]

SelectIdle == selection = NoSelection

\* valid_data of a variable: its samples lie on some set of days
SelectInit ==
  \E S \in SUBSET Days :
    selection = [pc |-> "data", dates |-> S, selected_dates |-> <<>>, attempted |-> <<>>]

\* lines 129-130: dates = sorted(unique()); selected_dates = dates[:max_days_per_variable]
SelectDates ==
  /\ selection.pc = "data"
  /\ selection' = [selection EXCEPT
                     !.pc = "day_loop",
                     !.selected_dates = Prefix(SortedDates(selection.dates),
                                               max_days_per_variable)]
  /\ UNCHANGED <<pvars, reader, hvars, gridbuild, detect, idw, rvars,
                 deadline, workflows, monitor>>

\* lines 175-224: one iteration of for day_idx, date in enumerate(selected_dates);
\* the job of the next date is attempted and ends in one of its branches
SelectAttempt ==
  /\ selection.pc = "day_loop"
  /\ Len(selection.attempted) < Len(selection.selected_dates)
  /\ \E branch \in JobBranches :
       selection' = [selection EXCEPT
                       !.attempted = Append(@,
                          <<selection.selected_dates[Len(selection.attempted) + 1],
                            branch>>)]
  /\ UNCHANGED <<pvars, reader, hvars, gridbuild, detect, idw, rvars,
                 deadline, workflows, monitor>>

\* line 226: the loop is over when selected_dates is exhausted
SelectEnd ==
  /\ selection.pc = "day_loop"
  /\ Len(selection.attempted) = Len(selection.selected_dates)
  /\ selection' = [selection EXCEPT !.pc = "finished"]
  /\ UNCHANGED <<pvars, reader, hvars, gridbuild, detect, idw, rvars,
                 deadline, workflows, monitor>>

SelectNext == SelectDates \/ SelectAttempt \/ SelectEnd

(***************************************************************************)
(* The Nextflow runs of the HTTP API: run_nextflow_workflow and            *)
(* get_workflow_status of app.py.  The workflow itself (/app/main.nf) is   *)
(* not part of the sources; it is taken to leave a file                    *)
(* workflow_report_*.json in OUTPUTS_DIR when it ends with return code 0,  *)
(* the completion signal get_workflow_status looks for.                    *)
(***************************************************************************)
\* the workflows that may be started are 1..MaxWorkflows
MaxWorkflows == 2

\* workflow_id = str(uuid.uuid4())[:8], one per call
WorkflowIds == 1..MaxWorkflows

NoAnswer == [workflow_id |-> 0, status |-> "", report |-> <<>>]

NoWorkflows ==
  [ state   |-> [w \in WorkflowIds |-> "none"],
    reports |-> <<>>,
    answer  |-> NoAnswer ]

WorkflowIdle == workflows = NoWorkflows

\* no workflow has been started; OUTPUTS_DIR is empty or holds the report of
\* a workflow of an earlier session of the server (written 0)
WorkflowInit ==
  \E earlier \in {<<>>, <<0>>} :
    workflows = [NoWorkflows EXCEPT !.reports = earlier]

\* the part of the state the API's handlers leave alone
WorkflowFrame ==
  UNCHANGED <<pvars, reader, hvars, gridbuild, detect, idw, rvars,
              deadline, selection, monitor>>

\* lines 409-454: a request is accepted, the work directory made and
\* subprocess.run(nextflow_cmd, ..., timeout=3600) entered
WorkflowStart(w) ==
  /\ workflows.state[w] = "none"
  /\ workflows' = [workflows EXCEPT !.state[w] = "running"]
  /\ WorkflowFrame

\* lines 456-463: the workflow returned 0, having left its report in
\* OUTPUTS_DIR; the handler answers status 'success' with the workflow_id
WorkflowFinish(w) ==
  /\ workflows.state[w] = "running"
  /\ workflows' = [workflows EXCEPT !.state[w] = "finished",
                                    !.reports = Append(@, w)]
  /\ WorkflowFrame

\* lines 464-470: the workflow returned a code other than 0; HTTP 500
WorkflowFail(w) ==
  /\ workflows.state[w] = "running"
  /\ workflows' = [workflows EXCEPT !.state[w] = "failed"]
  /\ WorkflowFrame

\* lines 473-474: subprocess.TimeoutExpired after 3600 s; HTTP 500 with
\* 'Workflow timeout (>1 hour)', and nothing is written
WorkflowTimeout(w) ==
  /\ workflows.state[w] = "running"
  /\ workflows' = [workflows EXCEPT !.state[w] = "timed_out"]
  /\ WorkflowFrame

\* lines 478-506: the files workflow_report_*.json of OUTPUTS_DIR are listed;
\* if there is one, the latest by ctime is loaded and the answer is
\* 'completed' with it, otherwise 'running'.  workflow_id is only echoed.
get_workflow_status(workflow_id) ==
  IF workflows.reports # <<>>
  THEN [ workflow_id |-> workflow_id, status |-> "completed",
         report |-> <<workflows.reports[Len(workflows.reports)]>> ]
  ELSE [ workflow_id |-> workflow_id, status |-> "running", report |-> <<>> ]

\* GET /api/workflow_status/<workflow_id>
GetWorkflowStatus(w) ==
  /\ workflows' = [workflows EXCEPT !.answer = get_workflow_status(w)]
  /\ WorkflowFrame

WorkflowNext ==
  \E w \in WorkflowIds :
    \/ WorkflowStart(w)
    \/ WorkflowFinish(w)
    \/ WorkflowFail(w)
    \/ WorkflowTimeout(w)
    \/ GetWorkflowStatus(w)

(***************************************************************************)
(* monitor.py: the WorkflowMonitor, its loop threads, the module-level     *)
(* dict workflow_status they write, and the handlers that serve it.  The   *)
(* loops are threading.Thread objects and the handlers run beside them;    *)
(* no lock guards the dict.  system_metrics, active_processes and the key  *)
(* work_directories are written the same way and are left out.             *)
(***************************************************************************)
\* start_monitoring is called at most MaxStarts times
MaxStarts == 2

\* at most MaxProcesses Nextflow processes run on the machine
MaxProcesses == 1

Threads == 1..MaxStarts

\* the lists psutil.process_iter can give (lines 155-169): the pids of the
\* Nextflow processes that are running at the time of the scan
ProcessLists == {<<>>} \cup {[i \in 1..n |-> i] : n \in 1..MaxProcesses}

\* a thread that start_monitoring has not created yet
NoThread == [pc |-> "none", nextflow_processes |-> <<>>]

NoSnapshot == [by |-> "", workflows |-> EmptyFn]

\* monitor = WorkflowMonitor() (lines 45-46, 239) and workflow_status = {}
\* (line 38)
NoMonitor ==
  [ running         |-> FALSE,
    threads         |-> [t \in Threads |-> NoThread],
    workflow_status |-> EmptyFn,
    served          |-> NoSnapshot ]

MonitorIdle == monitor = NoMonitor

MonitorInit == monitor = NoMonitor

\* the part of the state that monitor.py leaves alone
MonitorFrame ==
  UNCHANGED <<pvars, reader, hvars, gridbuild, detect, idw, rvars,
              deadline, selection, workflows>>

\* the loops that have been started and have not returned
ActiveLoops == {t \in Threads : monitor.threads[t].pc \notin {"none", "exited"}}

\* lines 49-54: running = True, and a new thread is created and started,
\* whether or not a loop is running already
start_monitoring ==
  /\ \E t \in Threads :
       /\ monitor.threads[t].pc = "none"
       /\ \A u \in Threads : u < t => monitor.threads[u].pc # "none"
       /\ monitor' = [monitor EXCEPT !.running = TRUE,
                                     !.threads[t].pc = "while"]
  /\ MonitorFrame

\* lines 56-59: running = False; the thread is not joined
stop_monitoring ==
  /\ monitor.running
  /\ monitor' = [monitor EXCEPT !.running = FALSE]
  /\ MonitorFrame

\* line 63: while self.running, tested at the start and after each sleep
LoopTest(t) ==
  /\ monitor.threads[t].pc = "while"
  /\ monitor' = [monitor EXCEPT
                   !.threads[t].pc = IF monitor.running THEN "scan" ELSE "exited"]
  /\ MonitorFrame

\* lines 65-66, 155-169: _update_system_metrics, then _check_workflows
\* collects the Nextflow processes into its local list
LoopScan(t) ==
  /\ monitor.threads[t].pc = "scan"
  /\ \E found \in ProcessLists :
       monitor' = [monitor EXCEPT !.threads[t] =
                     [pc |-> "write_processes", nextflow_processes |-> found]]
  /\ MonitorFrame

\* line 172: workflow_status['nextflow_processes'] = nextflow_processes
LoopWriteProcesses(t) ==
  /\ monitor.threads[t].pc = "write_processes"
  /\ monitor' = [monitor EXCEPT
                   !.workflow_status =
                      ("nextflow_processes" :> monitor.threads[t].nextflow_processes) @@ @,
                   !.threads[t].pc = "write_count"]
  /\ MonitorFrame

\* line 173: workflow_status['active_count'] = len(nextflow_processes)
LoopWriteCount(t) ==
  /\ monitor.threads[t].pc = "write_count"
  /\ monitor' = [monitor EXCEPT
                   !.workflow_status =
                      ("active_count" :> Len(monitor.threads[t].nextflow_processes)) @@ @,
                   !.threads[t] = [pc |-> "emit", nextflow_processes |-> <<>>]]
  /\ MonitorFrame

\* lines 67-77: _update_file_status, socketio.emit('status_update', ...)
\* with the dict as it is now, then time.sleep(5)
LoopEmit(t) ==
  /\ monitor.threads[t].pc = "emit"
  /\ monitor' = [monitor EXCEPT
                   !.served = [by |-> "status_update",
                              workflows |-> monitor.workflow_status],
                   !.threads[t].pc = "while"]
  /\ MonitorFrame

\* lines 79-81: an exception raised by the scan or by the emit is logged
\* and, after time.sleep(10), the loop goes back to its test
LoopError(t) ==
  /\ monitor.threads[t].pc \in {"scan", "emit"}
  /\ monitor' = [monitor EXCEPT !.threads[t].pc = "while"]
  /\ MonitorFrame

\* lines 246-254, 320-329, 336-344: get_status, on_connect and
\* on_request_update serialise workflow_status as it is at that moment
ServeStatus ==
  /\ \E handler \in {"get_status", "on_connect", "on_request_update"} :
       monitor' = [monitor EXCEPT
                     !.served = [by |-> handler,
                                workflows |-> monitor.workflow_status]]
  /\ MonitorFrame

\* lines 256-283: get_workflows answers workflow_status.get('active_count', 0)
get_workflows ==
  /\ monitor' = [monitor EXCEPT
                   !.served =
                      [by |-> "get_workflows",
                       workflows |->
                         ("active_count" :>
                            IF "active_count" \in DOMAIN monitor.workflow_status
                            THEN monitor.workflow_status["active_count"]
                            ELSE 0)]]
  /\ MonitorFrame

\* a step of one of the loop threads
LoopStep(t) ==
  \/ LoopTest(t)
  \/ LoopScan(t)
  \/ LoopWriteProcesses(t)
  \/ LoopWriteCount(t)
  \/ LoopEmit(t)
  \/ LoopError(t)

MonitorNext ==
  \/ start_monitoring
  \/ stop_monitoring
  \/ \E t \in Threads : LoopStep(t)
  \/ ServeStatus
  \/ get_workflows

\* no time limit has passed, and the parts modelled on their own are at rest
RestIdle == DeadlineIdle /\ SelectIdle /\ WorkflowIdle /\ MonitorIdle

\* the pipeline is not running
PipelineIdle ==
  /\ pc = "idle"
  /\ counts = [v \in Vars |-> [d \in Dates |-> 0]]
  /\ extent \in {e \in InitialExtents : \A v \in Vars : e[v] = e[target_variables[1]]}
  /\ disk = EmptyFn
  /\ var_idx = 1
  /\ day_idx = 1
  /\ selected_dates = <<>>
  /\ grid = NoGrid
  /\ interpolation_log = EmptyLog
  /\ daily_raster_files = <<>>
  /\ results_summary = EmptySummary
  /\ stacks = EmptyFn
  /\ all_daily_rasters = <<>>
  /\ multi = NoStack
  /\ catalog_file = AbsentCatalog
  /\ results_file = AbsentReport
  /\ outcome = [v \in Vars |-> [d \in Dates |-> "none"]]
  /\ var_outcome = [v \in Vars |-> "none"]
  /\ reader = <<"nothing", "absent">>

\* one entry point is invoked: the daily pipeline or the HTTP handler
Init ==
  /\ \/ PipelineInit /\ HttpIdle
     \/ PipelineIdle /\ HttpInit
  /\ GridIdle
  /\ DetectIdle
  /\ IdwIdle
  /\ ProcessInit
  /\ RestIdle

Next == PipelineNext \/ ReaderPoll \/ HttpNext

Spec == Init /\ [][Next]_vars

\* the pipeline is a sequential program: it keeps taking steps until it ends
FairSpec == Spec /\ WF_vars(PipelineNext)

GridSpecInit ==
  PipelineIdle /\ HttpIdle /\ GridInit /\ DetectIdle /\ IdwIdle /\ ProcessInit /\ RestIdle

\* the grid construction applied to each bounding box and resolution
GridSpec == GridSpecInit /\ [][GridNext]_vars

DetectSpecInit ==
  PipelineIdle /\ HttpIdle /\ GridIdle /\ DetectInit /\ IdwIdle /\ ProcessInit /\ RestIdle

\* the three detections applied to each table
DetectSpec == DetectSpecInit /\ [][DetectNext]_vars

\* the first of the two runs starts with an empty output_dir
RerunSpecInit ==
  /\ PipelineInit /\ disk = EmptyFn
  /\ HttpIdle /\ GridIdle /\ DetectIdle /\ IdwIdle /\ ProcessInit /\ RestIdle

IdwSpecInit ==
  PipelineIdle /\ HttpIdle /\ GridIdle /\ DetectIdle /\ IdwInit /\ ProcessInit /\ RestIdle

\* the inverse-distance estimate applied to each set of samples and node
IdwSpec == IdwSpecInit /\ [][IdwNext]_vars

\* the pipeline run twice over the same input
RerunSpec == RerunSpecInit /\ [][RerunNext]_vars

SelectSpecInit ==
  /\ PipelineIdle /\ HttpIdle /\ GridIdle /\ DetectIdle /\ IdwIdle /\ ProcessInit
  /\ DeadlineIdle /\ SelectInit /\ WorkflowIdle /\ MonitorIdle

\* the selection of dates and the day loop applied to each set of days
SelectSpec == SelectSpecInit /\ [][SelectNext]_vars

WorkflowSpecInit ==
  /\ PipelineIdle /\ HttpIdle /\ GridIdle /\ DetectIdle /\ IdwIdle /\ ProcessInit
  /\ DeadlineIdle /\ SelectIdle /\ WorkflowInit /\ MonitorIdle

\* the workflows of the HTTP API and the requests for their status
WorkflowSpec == WorkflowSpecInit /\ [][WorkflowNext]_vars

MonitorSpecInit ==
  /\ PipelineIdle /\ HttpIdle /\ GridIdle /\ DetectIdle /\ IdwIdle /\ ProcessInit
  /\ DeadlineIdle /\ SelectIdle /\ WorkflowIdle /\ MonitorInit

\* the monitor, its loop threads and the handlers that serve its state
MonitorSpec == MonitorSpecInit /\ [][MonitorNext]_vars

\* a started thread is scheduled again and again, and its sleeps end
MonitorFairSpec == MonitorSpec /\ \A t \in Threads : WF_vars(LoopStep(t))

\* the run starts with an empty output_dir and before its time limit
TimeoutSpecInit ==
  /\ PipelineInit /\ disk = EmptyFn
  /\ HttpIdle /\ GridIdle /\ DetectIdle /\ IdwIdle /\ ProcessInit /\ RestIdle

\* the pipeline while the wall clock passes the time limit of the run
TimeoutSpec == TimeoutSpecInit /\ [][TimeoutNext]_vars

(***************************************************************************)
(* Vocabulary of the properties.                                           *)
(***************************************************************************)
Range(s) == {s[i] : i \in 1..Len(s)}

\* the dates whose jobs a run requests for a variable it processes
SelectedOf(v) == Range(Prefix(SortedDates(DatesOf(v)), max_days_per_variable))

\* every variable was looked at and every selected date of a processed
\* variable went through the day loop
AllJobsAttempted ==
  \A v \in Vars :
    /\ var_outcome[v] # "none"
    /\ var_outcome[v] = "processed" => \A d \in SelectedOf(v) : outcome[v][d] # "none"

PastJobLoops ==
  pc \in {"multi_open", "multi_band", "catalog_dump", "report_open",
          "report_dump", "done", "aborted"}

Terminated == pc \in {"done", "aborted"}

JobFailures == {"skip_points", "failed"}

\* a step in which some (variable, date) job ends as a failure
JobFailureStep ==
  \E v \in Vars, d \in Dates :
    outcome[v][d] = "none" /\ outcome'[v][d] \in JobFailures

\* a step in which run_interpolation records an error for a variable
HttpFailureStep ==
  /\ hpc = "var_loop"
  /\ \E v \in RequestNames :
       /\ v \in DOMAIN results'
       /\ results'[v].status = "error"
       /\ h_idx' = h_idx + 1

\* C1: a failing (variable, date) job, whatever the reason, does not end the
\* run: the step that records the failure goes on to the next iteration of
\* the loop, and once the loops are over every job of the run was attempted;
\* the same for the per-variable loop of run_interpolation.
C1_JobFailureIsolated ==
  /\ [](PastJobLoops => AllJobsAttempted)
  /\ [][JobFailureStep => pc' = "day_loop" /\ day_idx' = day_idx + 1]_vars
  /\ [](hpc = "responded" /\ response.code = 200 =>
          \A i \in 1..Len(request.variables) :
             request.variables[i] \in columns =>
               request.variables[i] \in DOMAIN response.results)
  /\ [][HttpFailureStep => hpc' = "var_loop"]_vars

\* C1 witness: the first variable's first job failed, a job of the second
\* variable succeeded after it, and the run came to its end.
C1_Witness ==
  /\ pc = "done"
  /\ outcome[target_variables[1]][1] = "failed"
  /\ \E d \in Dates : outcome[target_variables[2]][d] = "success"

\* some job of the run wrote its single-band raster
ProducedAny == \E v \in Vars, d \in Dates : outcome[v][d] = "success"

\* the geostack assembler ran over the rasters: every band written, the
\* geostack closed, its catalog persisted
AssemblerRan ==
  /\ multi.exists
  /\ multi.closed
  /\ Len(multi.bands) = multi.count
  /\ catalog_file.state = "complete"

\* the Reported state
Reported ==
  /\ pc = "done"
  /\ AllJobsAttempted
  /\ ProducedAny => AssemblerRan
  /\ results_file.state = "complete"
  /\ results_file.content = results_summary

\* the run was ended by an exception raised while the multi-variable
\* geostack was being written; no report was persisted
AbortedInAssembly ==
  /\ pc = "aborted"
  /\ AllJobsAttempted
  /\ multi.exists
  /\ ~multi.closed
  /\ results_file.state = "absent"

RECURSIVE SumFailed(_, _)
\* total of failed_interpolations over the entries of a report
SumFailed(report, S) ==
  IF S = {} THEN 0
  ELSE LET v == CHOOSE x \in S : TRUE
       IN  report[v].failed_interpolations + SumFailed(report, S \ {v})

ReportedFailures ==
  SumFailed(results_file.content.processing_results,
            DOMAIN results_file.content.processing_results)

\* the (variable, date) jobs that ended as a failure or a skip
FailedDayJobs ==
  {<<v, d>> \in Vars \X Dates : outcome[v][d] \in JobFailures}

\* the variables passed over for having fewer than 10 valid points
SkippedVariables == {v \in Vars : var_outcome[v] = "skipped"}

\* C3 as stated: at the end of a run every requested variable has its entry
\* in the report, every failed or skipped job has added exactly one to the
\* failure counter, and a completed run_interpolation request reports every
\* requested variable.
C3_EveryJobRecorded ==
  /\ pc = "done" =>
       /\ \A v \in Vars : v \in DOMAIN results_file.content.processing_results
       /\ ReportedFailures = Cardinality(FailedDayJobs) + Cardinality(SkippedVariables)
  /\ hpc = "responded" /\ response.code = 200 =>
       \A i \in 1..Len(request.variables) :
          request.variables[i] \in DOMAIN response.results

\* the daily rasters this run's jobs put on disk, by success or by a failed write
WrittenBy(v) ==
  {f \in DOMAIN disk : NameVariable(f) = v /\ disk[f].by \in {"run", "failed"}}

\* C4 as stated: a variable with fewer than 10 valid points, and a day with
\* fewer than 5, is skipped without any raster of its own and adds exactly
\* one to the failure count of the run report.
C4_SkipCountsOneFailure ==
  pc = "done" =>
    /\ \A v \in SkippedVariables :
         /\ WrittenBy(v) = {}
         /\ v \in DOMAIN results_file.content.processing_results
         /\ results_file.content.processing_results[v].failed_interpolations = 1
    /\ \A v \in Vars \ SkippedVariables :
         /\ \A d \in Dates : outcome[v][d] = "skip_points" =>
              (DailyName(v, d) \in DOMAIN disk => disk[DailyName(v, d)].by = "earlier")
         /\ results_file.content.processing_results[v].failed_interpolations
              = Cardinality({d \in Dates : outcome[v][d] \in JobFailures})

\* C5 as stated: a reader never finds the report or the catalog existing
\* but only partially written.
C5_ReaderNeverSeesPartial == reader[2] # "partial"

\* the catalog of the persisted catalog file
band_catalog == catalog_file.content.band_catalog

SuccessDates(v) == {d \in Dates : outcome[v][d] = "success"}

\* C7: band k of a variable's geostack is the raster of the k-th
\* successfully interpolated date in ascending date order, band k of the
\* multi-variable geostack is the k-th raster of the sorted list it was
\* given, and no raster is dropped or written twice.
C7_BandOrderIsInputOrder ==
  /\ \A v \in DOMAIN stacks :
       /\ stacks[v].count = Cardinality(SuccessDates(v))
       /\ Len(stacks[v].bands) = stacks[v].count
       /\ {stacks[v].bands[k].src : k \in 1..Len(stacks[v].bands)}
            = {DailyName(v, d) : d \in SuccessDates(v)}
       /\ \A k \in 1..Len(stacks[v].bands) :
            /\ stacks[v].bands[k].pixels = disk[stacks[v].bands[k].src].pixels
            /\ \A j \in 1..(k - 1) :
                 IsoRank(NameDate(stacks[v].bands[j].src))
                   < IsoRank(NameDate(stacks[v].bands[k].src))
  /\ \A k \in 1..Len(multi.bands) :
       /\ multi.bands[k].src = all_daily_rasters[k]
       /\ \A j \in 1..(k - 1) : NameBefore(multi.bands[j].src, multi.bands[k].src)
                                  /\ multi.bands[j].src # multi.bands[k].src
  /\ multi.closed => Range(all_daily_rasters) = {multi.bands[k].src : k \in 1..Len(multi.bands)}

\* C7 witness: both variables have a two-band geostack and the
\* multi-variable geostack is assembled from their four rasters, the rasters
\* of the variable processed second coming first.
C7_Witness ==
  /\ multi.closed
  /\ Len(multi.bands) = 4
  /\ \A v \in Vars : v \in DOMAIN stacks /\ Len(stacks[v].bands) = 2
  /\ NameVariable(multi.bands[1].src) = target_variables[2]

\* C8 as stated: in an assembled geostack band i holds, pixel for pixel,
\* the data of the i-th input raster, and the catalog entry of band i gives
\* that raster's filename and the variable and date of the job whose
\* filename it is.
C8_RoundTrip ==
  multi.closed /\ catalog_file.state = "complete" =>
    \A i \in 1..Len(multi.bands) :
      /\ multi.bands[i].pixels = disk[all_daily_rasters[i]].pixels
      /\ band_catalog[i].filename = all_daily_rasters[i]
      /\ \E v \in Vars, d \in Dates :
           /\ all_daily_rasters[i] = DailyName(v, d)
           /\ band_catalog[i].variable = v
           /\ band_catalog[i].date = DateStr(d)

\* C9 as stated: when the rasters given to the assembly do not all share the
\* first raster's width, height, transform and CRS, no geostack file exists
\* on disk, written in part or in whole.
C9_MismatchFailsBeforeWriting ==
  multi.exists =>
    \A f \in Range(all_daily_rasters) : SameProfile(disk[f].grid, multi.grid)

\* the pixel holds the estimate of the grid node its transform assigns to it
NorthUp(file) ==
  \A r \in 1..file.grid.n_lat, c \in 1..file.grid.n_lon :
    /\ file.pixels[r][c][3] = TransformNode(file.grid, r, c)[1]
    /\ file.pixels[r][c][4] = TransformNode(file.grid, r, c)[2]

\* C10 as stated: every raster a job wrote is north-up, the value at pixel
\* (r, c) being the estimate for the grid location the transform gives (r, c).
C10_NorthUp ==
  /\ \A f \in DOMAIN disk : disk[f].by = "run" => NorthUp(disk[f])
  /\ \A f \in DOMAIN hdisk : NorthUp(hdisk[f])

(***************************************************************************)
(* Properties of the grid construction.                                    *)
(***************************************************************************)
\* the grid coordinates of an axis, each multiplied by den, lie around the
\* samples' range lo..hi of that axis, strictly on both sides
StrictlyAround(coords, den, lo, hi) ==
  /\ coords # <<>>
  /\ coords[1] < lo * den
  /\ coords[Len(coords)] > hi * den

\* C11 as stated: the extent of every grid built strictly contains the
\* bounding box of the samples on both axes, also when all samples share one
\* latitude or one longitude.
C11_GridStrictlyContainsBox ==
  gridbuild.pc = "built" =>
    /\ StrictlyAround(gridbuild.grid_lat, LinspaceDen(gridbuild.n_lat),
                      gridbuild.box.lat_min, gridbuild.box.lat_max)
    /\ StrictlyAround(gridbuild.grid_lon, LinspaceDen(gridbuild.n_lon),
                      gridbuild.box.lon_min, gridbuild.box.lon_max)

\* C12 as stated: whatever resolution is requested, a grid built by either
\* entry point has at most 400 cells on each axis.
C12_GridCapped ==
  gridbuild.pc = "built" =>
    /\ gridbuild.n_lat <= grid_cap /\ Len(gridbuild.grid_lat) <= grid_cap
    /\ gridbuild.n_lon <= grid_cap /\ Len(gridbuild.grid_lon) <= grid_cap

\* the least integer not below a / b, for a >= 0 and b > 0
Ceil(a, b) == (a + b - 1) \div b

\* C13 as stated: before the cap, the number of cells of an axis is
\* ceil(buffered_extent / cell_size) + 1, the buffered extent being the
\* axis extent plus the buffer on both sides.
C13_CellCountIsCeil ==
  gridbuild.pc = "counted" =>
    LET b == gridbuild.box
    IN  /\ gridbuild.n_lat =
             Ceil((b.lat_max - b.lat_min) + 2 * gridbuild.lat_buffer, gridbuild.resolution) + 1
        /\ gridbuild.n_lon =
             Ceil((b.lon_max - b.lon_min) + 2 * gridbuild.lon_buffer, gridbuild.resolution) + 1

\* coordinates evenly spaced and strictly ascending from lo to hi, both
\* included (each multiplied by den)
AscendingInclusive(coords, den, lo, hi) ==
  /\ coords # <<>>
  /\ coords[1] = lo * den
  /\ coords[Len(coords)] = hi * den
  /\ \A k \in 1..(Len(coords) - 1) :
       /\ coords[k] < coords[k + 1]
       /\ coords[k + 1] - coords[k] = coords[2] - coords[1]

\* C14 as stated: on each axis of every grid built, the coordinates are
\* linearly spaced, strictly ascending, and run from min - buffer to
\* max + buffer, both included.
C14_CoordinatesAscendingInclusive ==
  gridbuild.pc = "built" =>
    LET b == gridbuild.box
    IN  /\ AscendingInclusive(gridbuild.grid_lat, LinspaceDen(gridbuild.n_lat),
                              b.lat_min - gridbuild.lat_buffer,
                              b.lat_max + gridbuild.lat_buffer)
        /\ AscendingInclusive(gridbuild.grid_lon, LinspaceDen(gridbuild.n_lon),
                              b.lon_min - gridbuild.lon_buffer,
                              b.lon_max + gridbuild.lon_buffer)

(***************************************************************************)
(* Properties of the choice of the interpolation method.                   *)
(***************************************************************************)
\* the method names of the interpolation contract
SupportedMethods == {"kriging", "idw", "rbf"}

\* C15 as stated: every raster run_interpolation writes was computed by the
\* method the request names; a request naming a method that is not one of
\* kriging, idw, rbf writes no raster and reports an UnsupportedMethod error
\* for each variable it would have interpolated.
C15_MethodNeverSubstituted ==
  LET method == Lower(request.method)
  IN  /\ \A f \in DOMAIN hdisk :
           method \in SupportedMethods /\ hdisk[f].interpolator = method
      /\ method \notin SupportedMethods =>
           \A v \in DOMAIN results :
              results[v].status = "error" /\
              (results[v].error # "Insufficient data points"
                 => results[v].error = "UnsupportedMethod")

(***************************************************************************)
(* Properties of the detection of coordinate columns.                      *)
(***************************************************************************)
\* the first column of the table, in table order, that contains one of the
\* patterns (as a one-element sequence), or the empty sequence
FirstMatch(cols, patterns) ==
  IF \E k \in 1..Len(cols) : AnyIn(cols[k], patterns)
  THEN <<cols[CHOOSE k \in 1..Len(cols) :
                 /\ AnyIn(cols[k], patterns)
                 /\ \A j \in 1..(k - 1) : ~AnyIn(cols[j], patterns)]>>
  ELSE <<>>

\* no column of the table matches a latitude and a longitude pattern at once
RolesDisjoint(cols) ==
  \A k \in 1..Len(cols) : ~(AnyIn(cols[k], lat_patterns) /\ AnyIn(cols[k], lon_patterns))

\* C16 as stated: the latitude column that detect_coordinate_columns returns
\* is the first column in table order that matches a latitude pattern, and
\* the longitude column the first one that matches a longitude pattern.
C16_FirstMatchWins ==
  /\ detect.pc = "detected"
  /\ detect.path = "detect_coordinate_columns"
  /\ detect.result.found
  /\ RolesDisjoint(detect.columns)
  => /\ detect.result.latitude = FirstMatch(detect.columns, lat_patterns)
     /\ detect.result.longitude = FirstMatch(detect.columns, lon_patterns)

\* the two pattern sets of the contract
LatitudeTerms == <<p_lat, p_latitude, p_y, p_northing>>

LongitudeTerms == <<p_lon, p_long, p_longitude, p_x, p_easting, p_lng>>

\* C17 as stated: in every detection path the latitude candidates are
\* exactly the columns whose lower-cased name contains one of lat, latitude,
\* y, northing, and the longitude candidates exactly those containing one of
\* lon, long, longitude, x, easting, lng, a column being considered for each
\* role independently of the other.
C17_SamePatternsEverywhere ==
  detect.pc = "detected" =>
    /\ Range(detect.result.lat_candidates)
         = {c \in Range(detect.columns) : AnyIn(c, LatitudeTerms)}
    /\ Range(detect.result.lon_candidates)
         = {c \in Range(detect.columns) : AnyIn(c, LongitudeTerms)}

(***************************************************************************)
(* Properties of repeated runs.                                            *)
(***************************************************************************)
\* the second run has persisted its catalog
SecondCatalogPersisted ==
  /\ first_run # <<>>
  /\ all_daily_rasters # <<>>
  /\ pc \in {"report_open", "report_dump", "done"}
  /\ catalog_file.state = "complete"

\* C18 as stated: when the program is run twice on the same input and
\* configuration and both runs assemble the same rasters, the catalog file
\* of the second run is identical to that of the first, whatever the time of
\* the runs.
C18_CatalogIdempotent ==
  SecondCatalogPersisted /\ all_daily_rasters = first_run[1].files
    => catalog_file = first_run[1].catalog_file

\* C19 as stated: the artifacts of different runs have different names, so
\* no step of a run replaces a file that another run wrote.
C19_RunsNeverOverwrite ==
  [][\A f \in DOMAIN disk : disk[f].by = "earlier" => disk'[f] = disk[f]]_vars

(***************************************************************************)
(* Properties of the inverse-distance estimate.                            *)
(***************************************************************************)
\* the least and the greatest value of a non-empty sequence of samples
LeastOf(values) == CHOOSE x \in Range(values) : \A y \in Range(values) : x <= y

GreatestOf(values) == CHOOSE x \in Range(values) : \A y \in Range(values) : x >= y

C21_TimedOutRunReported ==
  /\ [][deadline => outcome' = outcome]_vars
  /\ [](deadline /\ Terminated =>
          /\ results_file.state = "complete"
          /\ "status" \in DOMAIN results_file.content
          /\ results_file.content.status = "timed_out")

\* C22: the response of an accepted run_interpolation request that completes
\* (HTTP 200) carries success = true, variables_requested, the number of
\* variables in the request, and variables_successful, the number of them
\* whose raster was written, which is at most variables_requested.
C22_ResponseCountsVariables ==
  hpc = "responded" /\ response.code = 200 =>
    /\ {"success", "variables_requested", "variables_successful"} \subseteq DOMAIN response
    /\ response.success = TRUE
    /\ response.variables_requested = Len(request.variables)
    /\ response.variables_successful =
         Cardinality({v \in DOMAIN response.results :
                        response.results[v].status = "success"})
    /\ response.variables_successful <= response.variables_requested

StackBands(v) == IF v \in DOMAIN stacks THEN stacks[v].count ELSE 0

\* C24: for every variable a run has processed, the two counters of its
\* report entry add up to the number of selected dates, and
\* successful_interpolations is the length of daily_files and the number of
\* bands of the variable's geostack.
C24_CountersMatchStack ==
  \A v \in DOMAIN results_summary.processing_results :
    LET log == results_summary.processing_results[v]
    IN  /\ log.successful_interpolations + log.failed_interpolations
             = Cardinality(SelectedOf(v))
        /\ log.successful_interpolations = Len(log.daily_files)
        /\ log.successful_interpolations = StackBands(v)

\* the single-band rasters the jobs of this run wrote successfully
ProducedByRun ==
  {f \in AllNames : \E v \in Vars, d \in Dates :
                      f = DailyName(v, d) /\ outcome[v][d] = "success"}

\* C25: the bands of the multi-variable geostack, and the entries of its
\* catalog, are exactly the single-band rasters this run produced
\* successfully: no file left in output_dir by another run or by a failed
\* write is among them.
C25_OnlyThisRunsRasters ==
  /\ multi.exists =>
       /\ \A i \in 1..Len(multi.bands) : multi.bands[i].src \in ProducedByRun
       /\ multi.closed => {multi.bands[i].src : i \in 1..Len(multi.bands)} = ProducedByRun
  /\ catalog_file.state = "complete" =>
       {catalog_file.content.band_catalog[i].filename :
          i \in 1..Len(catalog_file.content.band_catalog)} = ProducedByRun

\* C26: get_workflow_status(W) answers 'completed' only when the workflow W
\* has itself finished and written its report, and the report it returns is
\* the report of W; while W is running the answer is 'running', whatever
\* reports other workflows have left in the outputs directory.
C26_StatusIsOwnReport ==
  /\ [](workflows.answer.status = "completed" =>
          /\ workflows.state[workflows.answer.workflow_id] = "finished"
          /\ workflows.answer.report = <<workflows.answer.workflow_id>>)
  /\ [][ /\ workflows'.answer # workflows.answer
         /\ workflows.state[workflows'.answer.workflow_id] = "running"
         => workflows'.answer.status = "running" ]_vars

\* a snapshot of workflow_status in which the count agrees with the list
SnapshotConsistent(ws) ==
  "nextflow_processes" \in DOMAIN ws =>
    /\ "active_count" \in DOMAIN ws
    /\ ws["active_count"] = Len(ws["nextflow_processes"])

\* C27: every status snapshot served while the monitor runs, by get_status,
\* get_workflows or a socket status_update, is internally consistent:
\* active_count is the length of nextflow_processes; no reader observes the
\* state between the two writes of _check_workflows.
C27_SnapshotsConsistent == SnapshotConsistent(monitor.served.workflows)

\* the positions of a loop thread inside an iteration of its while loop
InIteration == {"scan", "write_processes", "write_count", "emit"}

\* C28: for any sequence of start_monitoring and stop_monitoring calls at
\* most one monitor loop is active at a time; a loop that is inside an
\* iteration, an iteration that raises included, does not end while
\* monitoring is on; and after a stop that is not followed by another start
\* every loop eventually exits, after which no status_update is emitted.
C28_OneLoopStopsCleanly ==
  /\ [](Cardinality(ActiveLoops) <= 1)
  /\ [][\A t \in Threads :
          monitor.running /\ monitor.threads[t].pc \in InIteration
            => monitor'.threads[t].pc # "exited"]_vars
  /\ [](~monitor.running => <>(monitor.running \/ ActiveLoops = {}))
  /\ [][ActiveLoops = {} /\ monitor'.served.by = "status_update"
          => monitor'.served = monitor.served]_vars

\* C29: in run_interpolation a coordinate column that the caller supplied is
\* never replaced: auto-detection fills in only the column, or the columns,
\* that the request left out.
C29_SuppliedColumnsKept ==
  detect.path = "run_interpolation" =>
    /\ detect.supplied.lat_column # NoColumn =>
         detect.config.lat_column = detect.supplied.lat_column
    /\ detect.supplied.lon_column # NoColumn =>
         detect.config.lon_column = detect.supplied.lon_column

\* C30: for every variable that run_interpolation reports as a success,
\* method_used names the method that actually computed the raster of the
\* variable.
C30_MethodUsedIsMethodRun ==
  \A v \in DOMAIN results :
    results[v].status = "success" =>
      /\ results[v].output_file \in DOMAIN hdisk
      /\ results[v].method_used = hdisk[results[v].output_file].interpolator

====
